---- MODULE Spec2Model ----
(***************************************************************************)
(* Model of the job catalog API of app/career_hub.py: the `jobs`           *)
(* collection and the handlers create_job_post, view_jobs_by_id,           *)
(* update_job_posting and delete_job_posting.                              *)
(*                                                                         *)
(* A JSON value is a record [kind, s, n, nm]: kind is the Python type the  *)
(* value decodes to, s its text (strings), n its number (integers, 0/1 for *)
(* booleans, the length of a list, the number of keys of an object) and nm *)
(* the value under the key 'name' of an object.  A document or a request   *)
(* body is a function from Fields to values, Absent for a missing key.     *)
(***************************************************************************)
EXTENDS Integers, Sequences, FiniteSets, TLC

\* ------------------------------------------------------------------ bounds
\* number of documents insert_one may create in one behaviour
MaxInserts == 2

\* ------------------------------------------------------------- JSON values
NoName == [kind |-> "absent", s |-> "", n |-> 0]
Absent == [kind |-> "absent", s |-> "", n |-> 0, nm |-> NoName]
Null == [kind |-> "null", s |-> "", n |-> 0, nm |-> NoName]
Str(t) == [kind |-> "str", s |-> t, n |-> 0, nm |-> NoName]
Int_(i) == [kind |-> "int", s |-> "", n |-> i, nm |-> NoName]
Bool(b) == [kind |-> "bool", s |-> "", n |-> IF b THEN 1 ELSE 0, nm |-> NoName]
\* an object holding only the key 'name'
Dict(name) == [kind |-> "dict", s |-> "", n |-> 1, nm |-> [kind |-> name.kind, s |-> name.s, n |-> name.n]]
\* the empty object {}
EmptyDict == [kind |-> "dict", s |-> "", n |-> 0, nm |-> NoName]
\* the ObjectId the store assigns to the i-th inserted document
Oid(i) == [kind |-> "oid", s |-> "", n |-> i, nm |-> NoName]

\* the keys a document or a body can carry in the model; "nickname" stands
\* for any key the update allow-list does not name
Fields == {"_id", "job_id", "title", "company", "industry", "posting_date", "average_salary", "remote", "nickname"}

NoDoc == [f \in Fields |-> Absent]

Has(d, f) == d[f].kind # "absent"

\* Python truthiness of a decoded JSON value (`not v` is its negation)
Truthy(v) ==
    CASE v.kind = "absent" -> FALSE
      [] v.kind = "null" -> FALSE
      [] v.kind = "str" -> v.s # ""
      [] v.kind = "oid" -> TRUE
      [] OTHER -> v.n # 0

\* str.strip() on the strings of the model
Strip(t) ==
    CASE t = " " -> ""
      [] OTHER -> t

\* isinstance(value, expected_type); bool is a subclass of int in Python
IsInstance(v, type) ==
    CASE type = "str" -> v.kind = "str"
      [] type = "int" -> v.kind \in {"int", "bool"}
      [] type = "bool" -> v.kind = "bool"
      [] type = "list" -> v.kind = "list"
      [] type = "dict" -> v.kind = "dict"
      [] OTHER -> FALSE

\* str(ObjectId): the text form the handlers put in a response
OidStr(v) == IF v.kind = "oid" THEN Str("oid" \o ToString(v.n)) ELSE v

\* ------------------------------------------------------------------- state
\* docs: the jobs collection in natural (insertion) order; inserted: the
\* number of ObjectIds handed out; last: the latest request served one at a
\* time and its response; clients: the requests in flight when handlers
\* interleave, each at its position between two store calls
VARIABLES docs, inserted, last, clients

vars == <<docs, inserted, last, clients>>

\* ------------------------------------------------------------------- store
\* positions of the documents a filter {"job_id": j} matches, in natural order
Matching(ds, j) == {i \in 1..Len(ds) : ds[i]["job_id"].kind = "int" /\ ds[i]["job_id"].n = j}

Min(S) == CHOOSE x \in S : \A y \in S : x <= y

\* a find_one that ignores its filter
FindOneUnfiltered(ds, j) == IF ds = << >> THEN NoDoc ELSE ds[1]

\* collection.find_one({"job_id": j}): the first match, or NoDoc for None
FindOne(ds, j) == IF Matching(ds, j) = {} THEN NoDoc ELSE ds[Min(Matching(ds, j))]

\* an update_one that replaces the document instead of merging into it
UpdateOneReplace(ds, j, set) ==
    IF Matching(ds, j) = {} THEN ds
    ELSE [ds EXCEPT ![Min(Matching(ds, j))] = [set EXCEPT !["_id"] = ds[Min(Matching(ds, j))]["_id"]]]

\* collection.update_one({"job_id": j}, {"$set": set}): merges the keys of
\* set into the first match and leaves every other key and document alone
UpdateOne(ds, j, set) ==
    IF Matching(ds, j) = {} THEN ds
    ELSE [ds EXCEPT ![Min(Matching(ds, j))] = [f \in Fields |-> IF Has(set, f) THEN set[f] ELSE @[f]]]

\* collection.delete_one({"job_id": j}): removes the first match
DeleteOne(ds, j) ==
    IF Matching(ds, j) = {} THEN ds
    ELSE SubSeq(ds, 1, Min(Matching(ds, j)) - 1) \o SubSeq(ds, Min(Matching(ds, j)) + 1, Len(ds))

\* collection.insert_one(body): appends body under a fresh ObjectId; the
\* collection has no unique index on job_id
InsertOne(ds, d, k) == Append(ds, [d EXCEPT !["_id"] = Oid(k)])

\* ---------------------------------------------------------- request bodies
\* the JSON object with the keys and values of the record r
Obj(r) == [f \in Fields |-> IF f \in DOMAIN r THEN r[f] ELSE Absent]

\* request.get_json(): kind is "none" (no body), "dict", "list" (a non-empty
\* array) or "int" (a non-zero number); f holds the keys of a "dict"
NoBody == [kind |-> "none", f |-> NoDoc]
JsonObj(r) == [kind |-> "dict", f |-> Obj(r)]
JsonList == [kind |-> "list", f |-> NoDoc]
JsonInt == [kind |-> "int", f |-> NoDoc]

Keys(d) == {f \in Fields : Has(d, f)}

\* `not body`
BodyFalsy(b) == b.kind = "none" \/ (b.kind = "dict" /\ Keys(b.f) = {})

\* --------------------------------------------------------- create_job_post
\* `k not in d or not d[k] or d[k].strip() == ''` for the value v under k:
\* 400 when the test is true, 500 when .strip() raises AttributeError on a
\* value that is not a string, 0 when the test is false
RequiredText(v) ==
    IF ~Truthy(v) THEN 400
    ELSE IF v.kind # "str" THEN 500
    ELSE IF Strip(v.s) = "" THEN 400
    ELSE 0

\* the company and industry checks: key present, an object, with a 'name'
RequiredObject(v) ==
    IF v.kind = "absent" THEN 400
    ELSE IF v.kind # "dict" THEN 400
    ELSE RequiredText([kind |-> v.nm.kind, s |-> v.nm.s, n |-> v.nm.n, nm |-> NoName])

\* `'posting_date' not in body or not body[..] or str(body[..]).strip() == ''`
RequiredDate(v) ==
    IF ~Truthy(v) THEN 400
    ELSE IF v.kind = "str" /\ Strip(v.s) = "" THEN 400
    ELSE 0

\* the validations of create_job_post in the order of the code: the status
\* of the first one that answers, 0 when the body reaches insert_one
CreateValidate(b) ==
    IF BodyFalsy(b) THEN 400
    ELSE IF b.kind = "int" THEN 500
    ELSE IF b.kind = "list" THEN 400
    ELSE LET title == RequiredText(b.f["title"])
             company == RequiredObject(b.f["company"])
             industry == RequiredObject(b.f["industry"])
         IN  IF title # 0 THEN title
             ELSE IF company # 0 THEN company
             ELSE IF industry # 0 THEN industry
             ELSE RequiredDate(b.f["posting_date"])

\* the response of a handler: status and, by handler, the document returned
\* (doc), the keys applied (fields) and the store's modified or deleted count
Response(op, path, b, status, doc, fields, count) ==
    [op |-> op, path |-> path, body |-> b, status |-> status, doc |-> doc, fields |-> fields, count |-> count]

NoPath == [ok |-> TRUE, n |-> 0]

\* the 201 payload: inserted_id as text and the job_id of the inserted document
CreatedPayload(d) == [f \in Fields |-> IF f = "_id" THEN OidStr(d["_id"]) ELSE IF f = "job_id" THEN d["job_id"] ELSE Absent]

create_job_post(b) ==
    LET status == CreateValidate(b) IN
    IF status # 0
    THEN /\ last' = Response("create", NoPath, b, status, NoDoc, {}, 0)
         /\ UNCHANGED <<docs, inserted, clients>>
    ELSE /\ inserted < MaxInserts
         /\ docs' = InsertOne(docs, b.f, inserted + 1)
         /\ inserted' = inserted + 1
         /\ last' = Response("create", NoPath, b, 201, CreatedPayload(docs'[Len(docs')]), {}, 0)
         /\ UNCHANGED clients

\* --------------------------------------------------------- view_jobs_by_id
view_jobs_by_id(j) ==
    /\ LET result == FindOne(docs, j) IN
       last' = IF result = NoDoc
               THEN Response("fetch", [ok |-> TRUE, n |-> j], NoBody, 404, NoDoc, {}, 0)
               ELSE Response("fetch", [ok |-> TRUE, n |-> j], NoBody, 200,
                             [result EXCEPT !["_id"] = OidStr(@)], {}, 0)
    /\ UNCHANGED <<docs, inserted, clients>>

\* ------------------------------------------------------ update_job_posting
\* allowed_fields: the allow-list of update_job_posting and its types
allowed_fields ==
    [title |-> "str", description |-> "str", years_of_experience |-> "str",
     responsibilities |-> "list", company |-> "dict", industry |-> "dict",
     education_required |-> "dict", skills_required |-> "list", employment_type |-> "str",
     average_salary |-> "int", benefits |-> "list", remote |-> "bool", location |-> "str",
     job_posting_url |-> "str", posting_date |-> "str", closing_date |-> "str",
     experience_level |-> "str"]

\* update_data with the two pop() calls left out
Unstripped(d) == d

\* update_data after the two pop() calls: job_id and _id removed
Stripped(d) == [f \in Fields |-> IF f \in {"job_id", "_id"} THEN Absent ELSE d[f]]

\* unknown_fields: the keys of update_data outside the allow-list
UnknownFields(d) == {f \in Keys(d) : f \notin DOMAIN allowed_fields}

\* the type validation loop: the keys whose value fails isinstance()
TypeMismatch(d) == {f \in Keys(d) \cap DOMAIN allowed_fields : ~IsInstance(d[f], allowed_fields[f])}

\* the validations with the allow-list test left out
UpdateValidateNoAllowList(path, b) ==
    IF ~path.ok THEN 400
    ELSE IF BodyFalsy(b) THEN 400
    ELSE IF b.kind # "dict" THEN 500
    ELSE IF TypeMismatch(Stripped(b.f)) # {} THEN 400
    ELSE 0

\* the validations of update_job_posting before its first store call: the
\* status of the first one that answers, 0 when the request reaches find_one
UpdateValidate(path, b) ==
    IF ~path.ok THEN 400
    ELSE IF BodyFalsy(b) THEN 400
    ELSE IF b.kind # "dict" THEN 500
    ELSE IF UnknownFields(Stripped(b.f)) # {} THEN 400
    ELSE IF TypeMismatch(Stripped(b.f)) # {} THEN 400
    ELSE 0

\* modified_count of update_one
ModifiedCount(before, after) == IF before = after THEN 0 ELSE 1

update_job_posting(path, b) ==
    LET status == UpdateValidate(path, b) IN
    IF status # 0
    THEN /\ last' = Response("update", path, b, status, NoDoc, {}, 0)
         /\ UNCHANGED <<docs, inserted, clients>>
    ELSE IF FindOne(docs, path.n) = NoDoc
    THEN /\ last' = Response("update", path, b, 404, NoDoc, {}, 0)
         /\ UNCHANGED <<docs, inserted, clients>>
    ELSE IF Keys(Stripped(b.f)) = {}
    THEN /\ last' = Response("update", path, b, 200, NoDoc, {}, 0)
         /\ UNCHANGED <<docs, inserted, clients>>
    ELSE /\ docs' = UpdateOne(docs, path.n, Stripped(b.f))
         /\ last' = Response("update", path, b, 200, NoDoc, Keys(Stripped(b.f)), ModifiedCount(docs, docs'))
         /\ UNCHANGED <<inserted, clients>>

\* ------------------------------------------------------ delete_job_posting
delete_job_posting(path) ==
    IF ~path.ok
    THEN /\ last' = Response("delete", path, NoBody, 400, NoDoc, {}, 0)
         /\ UNCHANGED <<docs, inserted, clients>>
    ELSE IF FindOne(docs, path.n) = NoDoc
    THEN /\ last' = Response("delete", path, NoBody, 404, NoDoc, {}, 0)
         /\ UNCHANGED <<docs, inserted, clients>>
    ELSE /\ docs' = DeleteOne(docs, path.n)
         /\ last' = Response("delete", path, NoBody, 200, NoDoc, {}, Len(docs) - Len(docs'))
         /\ UNCHANGED <<inserted, clients>>

\* ------------------------------------------------------------------ inputs
JobIds == {1, 2}

\* the <job_id> path segment: an integer, or text int() rejects
Paths == {[ok |-> TRUE, n |-> j] : j \in JobIds} \cup {[ok |-> FALSE, n |-> 0]}

Acme == Dict(Str("Acme"))
Finance == Dict(Str("Finance"))
Day == Str("2024-01-01")

ValidJob == [title |-> Str("Dev"), company |-> Acme, industry |-> Finance, posting_date |-> Day]

\* ValidJob with the key k set to v
With(r, k, v) == [f \in DOMAIN r \cup {k} |-> IF f = k THEN v ELSE r[f]]

\* ValidJob without the key k
Without(r, k) == [f \in DOMAIN r \ {k} |-> r[f]]

ValidCreateBodies ==
    { JsonObj(With(With(ValidJob, "job_id", Int_(1)), "average_salary", Int_(100))),
      JsonObj(With(ValidJob, "job_id", Int_(2))) }

InvalidCreateBodies ==
    { NoBody, JsonObj([x \in {} |-> Absent]), JsonList, JsonInt }
    \cup { JsonObj(Without(ValidJob, k)) : k \in DOMAIN ValidJob }
    \cup { JsonObj(With(ValidJob, "title", v)) : v \in {Str(" "), Int_(5)} }
    \cup { JsonObj(With(ValidJob, "company", v)) : v \in {Str("Acme"), EmptyDict, Dict(Int_(5))} }
    \cup { JsonObj(With(ValidJob, "industry", v)) : v \in {Dict(Str("")), Null} }
    \cup { JsonObj(With(ValidJob, "posting_date", v)) : v \in {Str(" ")} }

\* a body whose posting_date is a number, not text
NumericDateBody == JsonObj(With(ValidJob, "posting_date", Int_(20240101)))

CreateBodies == ValidCreateBodies \cup InvalidCreateBodies \cup {NumericDateBody}

Promotion == [title |-> Str("Lead"), company |-> Dict(Str("Globex"))]

UpdateBodies ==
    { NoBody, JsonObj([x \in {} |-> Absent]), JsonList,
      JsonObj(Promotion),
      JsonObj([average_salary |-> Bool(TRUE)]),
      JsonObj([average_salary |-> Str("high")]),
      JsonObj([remote |-> Int_(1)]),
      JsonObj([nickname |-> Str("x")]),
      JsonObj(With(Promotion, "nickname", Str("x"))),
      JsonObj(With(Promotion, "job_id", Int_(2))),
      JsonObj([_id |-> Str("oid9"), job_id |-> Int_(2)]),
      JsonObj(With(Promotion, "_id", Str("oid9"))),
      JsonObj([job_id |-> Int_(2), nickname |-> Str("x")]) }

\* the update requests: every body on the path of job 1, one on a path that
\* is not an integer
UpdateRequests ==
    { <<p, b>> \in Paths \X UpdateBodies : (p.ok /\ p.n = 1) \/ (~p.ok /\ b = JsonObj(Promotion)) }

\* the concurrent clients of the server
Clients == {"a", "b"}

Idle == [pc |-> "idle", op |-> "none", path |-> NoPath, body |-> NoBody, oid |-> 0, calls |-> 0, status |-> 0, count |-> 0]

Init ==
    /\ docs = << >>
    /\ inserted = 0
    /\ last = Response("none", NoPath, NoBody, 0, NoDoc, {}, 0)
    /\ clients = [c \in Clients |-> Idle]

\* ------------------------------------------------- one request at a time
Next ==
    \/ \E b \in CreateBodies : create_job_post(b)
    \/ \E j \in JobIds \cup {3} : view_jobs_by_id(j)
    \/ \E r \in UpdateRequests : update_job_posting(r[1], r[2])
    \/ \E p \in Paths : delete_job_posting(p)

Spec == Init /\ [][Next]_vars

TypeOK ==
    /\ inserted \in 0..MaxInserts
    /\ Len(docs) <= inserted
    /\ \A i \in 1..Len(docs) : docs[i]["_id"].kind = "oid"

\* ------------------------------------------------- interleaved requests
\* A handler runs from its validations to its first store call in one step
\* and then one step per store call; other handlers run in between.
Answer(c, status, count) == [clients EXCEPT ![c].pc = "done", ![c].status = status, ![c].count = count]

Call(cl, c) == [cl EXCEPT ![c].calls = @ + 1]

Start(c, op, path, b, pc) == [clients EXCEPT ![c] = [Idle EXCEPT !.pc = pc, !.op = op, !.path = path, !.body = b]]

\* create_job_post up to insert_one
CreateBegin(c, b) ==
    /\ clients[c].pc = "idle"
    /\ clients' = IF CreateValidate(b) # 0
                  THEN [Start(c, "create", NoPath, b, "done") EXCEPT ![c].status = CreateValidate(b)]
                  ELSE Start(c, "create", NoPath, b, "insert")
    /\ UNCHANGED <<docs, inserted, last>>

\* record_created = collection.insert_one(body)
CreateInsert(c) ==
    /\ clients[c].pc = "insert"
    /\ inserted < MaxInserts
    /\ docs' = InsertOne(docs, clients[c].body.f, inserted + 1)
    /\ inserted' = inserted + 1
    /\ clients' = Call([clients EXCEPT ![c].pc = "readback", ![c].oid = inserted + 1], c)
    /\ UNCHANGED last

\* inserted_doc = collection.find_one({"_id": record_created.inserted_id})
CreateReadBack(c) ==
    /\ clients[c].pc = "readback"
    /\ clients' = Call(Answer(c, 201, Cardinality({i \in 1..Len(docs) : docs[i]["_id"] = Oid(clients[c].oid)})), c)
    /\ UNCHANGED <<docs, inserted, last>>

\* view_jobs_by_id: its one store call
FetchFind(c, j) ==
    /\ clients[c].pc = "idle"
    /\ clients' = Call([Start(c, "fetch", [ok |-> TRUE, n |-> j], NoBody, "done")
                          EXCEPT ![c].status = IF FindOne(docs, j) = NoDoc THEN 404 ELSE 200], c)
    /\ UNCHANGED <<docs, inserted, last>>

\* update_job_posting up to find_one
UpdateBegin(c, path, b) ==
    /\ clients[c].pc = "idle"
    /\ clients' = IF UpdateValidate(path, b) # 0
                  THEN [Start(c, "update", path, b, "done") EXCEPT ![c].status = UpdateValidate(path, b)]
                  ELSE Start(c, "update", path, b, "find")
    /\ UNCHANGED <<docs, inserted, last>>

\* existing_job = collection.find_one(...) and the two answers that follow it
UpdateFind(c) ==
    /\ clients[c].pc = "find"
    /\ clients[c].op = "update"
    /\ clients' = IF FindOne(docs, clients[c].path.n) = NoDoc THEN Call(Answer(c, 404, 0), c)
                  ELSE IF Keys(Stripped(clients[c].body.f)) = {} THEN Call(Answer(c, 200, 0), c)
                  ELSE Call([clients EXCEPT ![c].pc = "write"], c)
    /\ UNCHANGED <<docs, inserted, last>>

\* result = collection.update_one(...)
UpdateWrite(c) ==
    /\ clients[c].pc = "write"
    /\ clients[c].op = "update"
    /\ docs' = UpdateOne(docs, clients[c].path.n, Stripped(clients[c].body.f))
    /\ clients' = Call(Answer(c, 200, ModifiedCount(docs, docs')), c)
    /\ UNCHANGED <<inserted, last>>

\* delete_job_posting up to find_one
DeleteBegin(c, path) ==
    /\ clients[c].pc = "idle"
    /\ clients' = IF ~path.ok
                  THEN [Start(c, "delete", path, NoBody, "done") EXCEPT ![c].status = 400]
                  ELSE Start(c, "delete", path, NoBody, "find")
    /\ UNCHANGED <<docs, inserted, last>>

\* existing_job = collection.find_one(...)
DeleteFind(c) ==
    /\ clients[c].pc = "find"
    /\ clients[c].op = "delete"
    /\ clients' = IF FindOne(docs, clients[c].path.n) = NoDoc THEN Call(Answer(c, 404, 0), c)
                  ELSE Call([clients EXCEPT ![c].pc = "write"], c)
    /\ UNCHANGED <<docs, inserted, last>>

\* a delete that repeats its existence check before delete_one
DeleteWriteRecheck(c) ==
    /\ clients[c].pc = "write"
    /\ clients[c].op = "delete"
    /\ docs' = DeleteOne(docs, clients[c].path.n)
    /\ clients' = Call(Call(Answer(c, 200, Len(docs) - Len(docs')), c), c)
    /\ UNCHANGED <<inserted, last>>

\* result = collection.delete_one(...)
DeleteWrite(c) ==
    /\ clients[c].pc = "write"
    /\ clients[c].op = "delete"
    /\ docs' = DeleteOne(docs, clients[c].path.n)
    /\ clients' = Call(Answer(c, 200, Len(docs) - Len(docs')), c)
    /\ UNCHANGED <<inserted, last>>

\* the response is sent and the worker takes its next request
Finish(c) ==
    /\ clients[c].pc = "done"
    /\ clients' = [clients EXCEPT ![c] = Idle]
    /\ UNCHANGED <<docs, inserted, last>>

\* the requests the interleaved clients send
ConcCreateBodies == {JsonObj(With(ValidJob, "job_id", Int_(1))), JsonObj(Without(ValidJob, "title"))}

ConcUpdateBodies == {JsonObj(Promotion), JsonObj([job_id |-> Int_(2)]), JsonObj([nickname |-> Str("x")])}

ConcPaths == {[ok |-> TRUE, n |-> 1], [ok |-> FALSE, n |-> 0]}

NextConc ==
    \/ \E c \in Clients, b \in ConcCreateBodies : CreateBegin(c, b)
    \/ \E c \in Clients : CreateInsert(c)
    \/ \E c \in Clients : CreateReadBack(c)
    \/ \E c \in Clients : FetchFind(c, 1)
    \/ \E c \in Clients, b \in ConcUpdateBodies : UpdateBegin(c, [ok |-> TRUE, n |-> 1], b)
    \/ \E c \in Clients : UpdateFind(c)
    \/ \E c \in Clients : UpdateWrite(c)
    \/ \E c \in Clients, p \in ConcPaths : DeleteBegin(c, p)
    \/ \E c \in Clients : DeleteFind(c)
    \/ \E c \in Clients : DeleteWrite(c)
    \/ \E c \in Clients : Finish(c)

SpecConc == Init /\ [][NextConc]_vars

\* -------------------------------------------------------------- properties
\* the documents of ds that carry the integer job_id j
Carrying(ds, j) == {i \in 1..Len(ds) : ds[i]["job_id"] = Int_(j)}

\* C1: after any sequence of create, update and delete requests no two
\* documents of the collection carry the same job_id.
JobIdUnique ==
    \A i, k \in 1..Len(docs) : (i # k /\ Has(docs[i], "job_id")) => docs[i]["job_id"] # docs[k]["job_id"]

\* C2: a create answered 201 whose body carries a job_id, followed by a
\* fetch of that job_id, is answered 200 with a document that equals the
\* body on every submitted key.
CreateThenFetchRoundTrips ==
    [][(/\ last.op = "create" /\ last.status = 201 /\ Has(last.body.f, "job_id")
        /\ last'.op = "fetch" /\ last'.path.n = last.body.f["job_id"].n)
       => (/\ last'.status = 200
           /\ \A f \in Keys(last.body.f) : last'.doc[f] = last.body.f[f])]_vars

\* C3: a delete answered 200 followed directly by a fetch of the same job_id
\* is answered 404 on the fetch.
DeleteThenFetchNotFound ==
    [][(/\ last.op = "delete" /\ last.status = 200
        /\ last'.op = "fetch" /\ last'.path.n = last.path.n)
       => last'.status = 404]_vars

\* C4: a fetch of a job_id no stored document carries is answered 404; a
\* fetch of a job_id some stored document carries is answered 200 with a
\* stored document of that job_id (its _id as text), never with a document
\* of another job_id.
FetchByJobId ==
    last.op = "fetch" =>
        IF Carrying(docs, last.path.n) = {}
        THEN last.status = 404 /\ last.doc = NoDoc
        ELSE /\ last.status = 200
             /\ last.doc["job_id"] = Int_(last.path.n)
             /\ \E i \in Carrying(docs, last.path.n) :
                    /\ last.doc["_id"] = Str("oid" \o ToString(docs[i]["_id"].n))
                    /\ \A f \in Fields \ {"_id"} : last.doc[f] = docs[i][f]

\* the fetch found its document behind a document of another job_id
FetchFoundBehindOther ==
    /\ last.op = "fetch" /\ last.status = 200
    /\ Len(docs) = 2
    /\ docs[1]["job_id"] # Int_(last.path.n)
    /\ docs[2]["job_id"] = Int_(last.path.n)

\* C5 as stated: an update whose body contains a key outside the allow-list
\* is answered 400 and leaves every document unchanged.
UnknownFieldRejected ==
    [][(/\ last'.op = "update" /\ last'.body.kind = "dict"
        /\ \E f \in Keys(last'.body.f) : f \notin DOMAIN allowed_fields)
       => (last'.status = 400 /\ docs' = docs)]_vars

\* C5 amended: an update whose body contains a key other than job_id and
\* _id outside the allow-list is answered 400 and leaves the target document
\* and every other document unchanged, also when the body carries valid
\* allow-listed keys.
UnknownFieldRejectedExceptIds ==
    [][(/\ last'.op = "update" /\ last'.body.kind = "dict"
        /\ \E f \in Keys(last'.body.f) : f \notin DOMAIN allowed_fields \cup {"job_id", "_id"})
       => (last'.status = 400 /\ docs' = docs)]_vars

\* an update naming an unknown key next to valid keys was refused on a job
\* that exists
UnknownFieldRefusedOnExistingJob ==
    /\ last.op = "update" /\ last.status = 400 /\ last.path.ok
    /\ Has(last.body.f, "nickname") /\ Has(last.body.f, "title")
    /\ Carrying(docs, last.path.n) # {}

\* the keys of a body other than job_id and _id all are allow-listed and of
\* the declared type
RestValid(d) ==
    \A f \in Keys(d) \ {"job_id", "_id"} : f \in DOMAIN allowed_fields /\ IsInstance(d[f], allowed_fields[f])

\* C6: an update whose body contains job_id or _id changes no document's
\* job_id or _id; when its other keys are valid and the job exists it is
\* answered 200 and those other keys are applied to the target document.
IdsDroppedRestApplied ==
    [][(/\ last'.op = "update" /\ last'.body.kind = "dict"
        /\ (Has(last'.body.f, "job_id") \/ Has(last'.body.f, "_id")))
       => (/\ Len(docs') = Len(docs)
           /\ \A i \in 1..Len(docs) : docs'[i]["job_id"] = docs[i]["job_id"] /\ docs'[i]["_id"] = docs[i]["_id"]
           /\ (last'.path.ok /\ RestValid(last'.body.f) /\ Carrying(docs, last'.path.n) # {})
              => (/\ last'.status = 200
                  /\ \E i \in Carrying(docs, last'.path.n) :
                        \A f \in Keys(last'.body.f) \ {"job_id", "_id"} : docs'[i][f] = last'.body.f[f]))]_vars

\* an update naming another job_id was answered 200 and its title applied
UpdateWithJobIdApplied ==
    /\ last.op = "update" /\ last.status = 200
    /\ Has(last.body.f, "job_id") /\ last.body.f["job_id"] # Int_(last.path.n)
    /\ "title" \in last.fields
    /\ \E i \in Carrying(docs, last.path.n) : docs[i]["title"] = last.body.f["title"]

\* the type the allow-list declares, matched exactly
ExactType(v, type) == v.kind = type

\* C7: an update is answered 400 and changes nothing whenever a supplied
\* value is not exactly of the type the allow-list declares for its key.
ExactTypeEnforced ==
    [][(/\ last'.op = "update" /\ last'.body.kind = "dict"
        /\ \E f \in Keys(last'.body.f) \cap DOMAIN allowed_fields : ~ExactType(last'.body.f[f], allowed_fields[f]))
       => (last'.status = 400 /\ docs' = docs)]_vars

\* missing, empty or not text
BadText(v) == v.kind # "str" \/ Strip(v.s) = ""

\* missing, not an object, or its name missing, empty or not text
BadObject(v) == v.kind # "dict" \/ v.nm.kind # "str" \/ Strip(v.nm.s) = ""

InvalidCreate(b) ==
    \/ b.kind = "none"
    \/ /\ b.kind = "dict"
       /\ (BadText(b.f["title"]) \/ BadObject(b.f["company"]) \/ BadObject(b.f["industry"]) \/ BadText(b.f["posting_date"]))

\* C8: a create whose body is missing, or whose title, company,
\* company.name, industry, industry.name or posting_date is missing, empty
\* or of the wrong kind, is answered 400 and inserts no document.
InvalidCreateRejected ==
    [][(last'.op = "create" /\ InvalidCreate(last'.body)) => (last'.status = 400 /\ docs' = docs)]_vars

\* C9: an update answered 200 leaves every other document unchanged and, in
\* one document of the given job_id, gives every key named in the body
\* (job_id and _id are dropped, C6) the body's value and leaves every other
\* key unchanged.
UpdateMergesNamedFields ==
    [][(last'.op = "update" /\ last'.status = 200)
       => (/\ Len(docs') = Len(docs)
           /\ last'.fields = Keys(last'.body.f) \ {"job_id", "_id"}
           /\ \E t \in Carrying(docs, last'.path.n) :
                /\ \A i \in 1..Len(docs) : i # t => docs'[i] = docs[i]
                /\ \A f \in Fields : docs'[t][f] = IF f \in last'.fields THEN last'.body.f[f] ELSE docs[t][f])]_vars

\* an update changed one of two documents and kept a key it did not name
UpdateMergedOneOfTwo ==
    /\ last.op = "update" /\ last.status = 200 /\ last.count = 1
    /\ last.fields = {"title", "company"}
    /\ Len(docs) = 2
    /\ \E i \in Carrying(docs, last.path.n) : docs[i]["title"] = Str("Lead") /\ docs[i]["average_salary"] = Int_(100)

DeleteAnswersOneRemoved ==
    /\ \A c \in Clients :
         (clients[c].op = "delete" /\ clients[c].pc = "done" /\ clients[c].status = 200)
            => clients[c].count = 1
    /\ ~(/\ inserted = 1
         /\ \A c \in Clients : clients[c].op = "delete" /\ clients[c].pc = "done" /\ clients[c].status = 200)

\* ========================================================== query handlers
\* The query handlers read the collection and write nothing.  Here text is a
\* sequence of one-character strings, so that int(), split() and strip() are
\* computed, and a document carries the keys the queries read: job_id and
\* average_salary as JSON values, skills_required as Some(list of names) and
\* industry.name, company.name and education_required.level as Some(text),
\* None for a missing key.
MaxJobs == 6

\* the most documents of a collection that are copies of one sample
MaxCopies == 2

\* limit(5) of get_top_paying_jobs
TopLimit == 5

None == << >>
Some(x) == <<x>>

\* the sample documents: two of equal salary, names that differ in case only,
\* and one without any of the optional keys
Samples ==
    << [job_id |-> Int_(1), average_salary |-> Int_(100), skills_required |-> Some(<< <<"p", "y">>, <<"s", "q">> >>),
        industry_name |-> Some(<<"F", "i">>), company_name |-> Some(<<"A", "c">>), level |-> Some(<<"M", "s">>)],
       [job_id |-> Int_(2), average_salary |-> Int_(100), skills_required |-> Some(<< <<"P", "Y">> >>),
        industry_name |-> Some(<<"f", "i">>), company_name |-> Some(<<"a", "c">>), level |-> Some(<<"m", "s">>)],
       [job_id |-> Int_(3), average_salary |-> Int_(200), skills_required |-> Some(<< <<"s", "q">>, <<>> >>),
        industry_name |-> Some(<<"T", "e">>), company_name |-> Some(<<"A", "c">>), level |-> Some(<<"B", "a">>)],
       [job_id |-> Absent, average_salary |-> Absent, skills_required |-> None,
        industry_name |-> None, company_name |-> None, level |-> None] >>

\* the stored document: sample k under the ObjectId of its position
Stored(k, pos) ==
    [_id |-> Oid(pos), job_id |-> Samples[k].job_id, average_salary |-> Samples[k].average_salary,
     skills_required |-> Samples[k].skills_required, industry_name |-> Samples[k].industry_name,
     company_name |-> Samples[k].company_name, level |-> Samples[k].level]

\* the collections of the model: up to MaxJobs samples, up to MaxCopies of
\* each (the collection has no unique index), listed in the order of Samples
Collections ==
    UNION { { [i \in 1..n |-> Stored(pick[i], i)] :
                pick \in { q \in [1..n -> 1..Len(Samples)] :
                             /\ \A i \in 1..(n - 1) : q[i] <= q[i + 1]
                             /\ \A k \in 1..Len(Samples) : Cardinality({i \in 1..n : q[i] = k}) <= MaxCopies } } :
            n \in 0..MaxJobs }

\* job['_id'] = str(job['_id']) for each job of the list
Stringified(jobs) == [i \in 1..Len(jobs) |-> [jobs[i] EXCEPT !._id = OidStr(@)]]

\* the response of a query handler: status, the jobs listed, their count,
\* the groups of an aggregation and whether the store was queried
Reply(op, a, b, status, jobs, groups, queried) ==
    [op |-> op, a |-> a, b |-> b, status |-> status, jobs |-> jobs, count |-> Len(jobs),
     groups |-> groups, queried |-> queried]

\* 404 for an empty list, else 200 with the list, its _id values as text
Listed(op, a, b, jobs) ==
    IF jobs = << >> THEN Reply(op, a, b, 404, << >>, << >>, TRUE)
    ELSE Reply(op, a, b, 200, Stringified(jobs), << >>, TRUE)

\* ------------------------------------------------ get_jobs_by_salary_range
Digits == <<"0", "1", "2", "3", "4", "5", "6", "7", "8", "9">>

IsDigit(c) == \E d \in 1..10 : Digits[d] = c

DigitValue(c) == (CHOOSE d \in 1..10 : Digits[d] = c) - 1

RECURSIVE Decimal(_)
Decimal(t) == IF t = << >> THEN 0 ELSE 10 * Decimal(SubSeq(t, 1, Len(t) - 1)) + DigitValue(t[Len(t)])

\* int(text): ok is FALSE for ValueError
ParseInt(t) ==
    LET digits == IF t # << >> /\ t[1] = "-" THEN Tail(t) ELSE t IN
    IF digits = << >> \/ \E i \in 1..Len(digits) : ~IsDigit(digits[i])
    THEN [ok |-> FALSE, n |-> 0]
    ELSE [ok |-> TRUE, n |-> IF t[1] = "-" THEN 0 - Decimal(digits) ELSE Decimal(digits)]

\* a range filter with $gt in place of $gte
SalaryAboveMin(d, lo, hi) == d.average_salary.kind = "int" /\ lo < d.average_salary.n /\ d.average_salary.n <= hi

\* {"average_salary": {"$gte": lo, "$lte": hi}}: numbers only
SalaryInRange(d, lo, hi) == d.average_salary.kind = "int" /\ lo <= d.average_salary.n /\ d.average_salary.n <= hi

\* a query parameter: given is FALSE when request.args.get returns None
get_jobs_by_salary_range(min_salary, max_salary) ==
    /\ LET lo == ParseInt(min_salary.text)
           hi == ParseInt(max_salary.text)
           Match(d) == SalaryInRange(d, lo.n, hi.n)
       IN  last' = IF ~min_salary.given \/ min_salary.text = << >> \/ ~max_salary.given \/ max_salary.text = << >>
                   THEN Reply("salary", min_salary, max_salary, 400, << >>, << >>, FALSE)
                   ELSE IF ~lo.ok \/ ~hi.ok
                   THEN Reply("salary", min_salary, max_salary, 400, << >>, << >>, FALSE)
                   ELSE IF lo.n > hi.n
                   THEN Reply("salary", min_salary, max_salary, 400, << >>, << >>, FALSE)
                   ELSE Listed("salary", min_salary, max_salary, SelectSeq(docs, Match))
    /\ UNCHANGED <<docs, inserted, clients>>

\* the salary parameters sent: text as received, with the integer it denotes
\* (int is FALSE when it denotes none)
Param(text, int, val) == [given |-> TRUE, text |-> text, int |-> int, val |-> val]

Missing == [given |-> FALSE, text |-> << >>, int |-> FALSE, val |-> 0]
P100 == Param(<<"1", "0", "0">>, TRUE, 100)
P150 == Param(<<"1", "5", "0">>, TRUE, 150)
P200 == Param(<<"2", "0", "0">>, TRUE, 200)
Minus5 == Param(<<"-", "5">>, TRUE, -5)

\* the <<min_salary, max_salary>> pairs sent
SalaryRequests ==
    { <<Missing, P100>>, <<P100, Missing>>, <<Param(<< >>, FALSE, 0), P100>>,
      <<Param(<<"a", "b">>, FALSE, 0), P100>>, <<P100, Param(<<"1", ".", "5">>, FALSE, 0)>>,
      <<P200, P100>>, <<P150, Minus5>>,
      <<P100, P100>>, <<P100, P200>>, <<P150, P200>>, <<P150, P150>>, <<Minus5, P150>> }

\* --------------------------------------------- get_jobs_by_multiple_skills
UpperCase == <<"A", "B", "C", "D", "E", "F", "G", "H", "I", "J", "K", "L", "M", "N", "O", "P", "Q", "R", "S", "T", "U", "V", "W", "X", "Y", "Z">>

LowerCase == <<"a", "b", "c", "d", "e", "f", "g", "h", "i", "j", "k", "l", "m", "n", "o", "p", "q", "r", "s", "t", "u", "v", "w", "x", "y", "z">>

\* a comparison that tells upper case from lower case
CaseSensitive(t) == t

\* collation {'locale': 'en', 'strength': 2}: text is compared by its base
\* letters, upper and lower case alike
Collated(t) == [i \in 1..Len(t) |-> IF \E k \in 1..26 : UpperCase[k] = t[i]
                                    THEN LowerCase[CHOOSE k \in 1..26 : UpperCase[k] = t[i]]
                                    ELSE t[i]]

\* skill_names.split('&')
RECURSIVE SplitAmp(_)
SplitAmp(t) ==
    IF \A i \in 1..Len(t) : t[i] # "&" THEN <<t>>
    ELSE LET at == CHOOSE i \in 1..Len(t) : t[i] = "&" /\ \A k \in 1..(i - 1) : t[k] # "&"
         IN  <<SubSeq(t, 1, at - 1)>> \o SplitAmp(SubSeq(t, at + 1, Len(t)))

\* skill.strip()
RECURSIVE StripText(_)
StripText(t) ==
    IF t = << >> THEN t
    ELSE IF t[1] = " " THEN StripText(Tail(t))
    ELSE IF t[Len(t)] = " " THEN StripText(SubSeq(t, 1, Len(t) - 1))
    ELSE t

\* {"skills_required": skill} under the collation: some element of the array
\* is the skill
HasSkill(d, skill) ==
    /\ d.skills_required # None
    /\ \E i \in 1..Len(d.skills_required[1]) : Collated(d.skills_required[1][i]) = Collated(skill)

\* a filter that joins the conditions with $or
HasAnySkill(d, skills) == \E i \in 1..Len(skills) : HasSkill(d, skills[i])

\* {"$and": [{"skills_required": skill} for skill in skills_list]}
HasAllSkills(d, skills) == \A i \in 1..Len(skills) : HasSkill(d, skills[i])

get_jobs_by_multiple_skills(skill_names) ==
    /\ LET pieces == SplitAmp(skill_names.path)
           skills_list == [i \in 1..Len(pieces) |-> StripText(pieces[i])]
           Match(d) == HasAllSkills(d, skills_list)
       IN  last' = IF skills_list = << >> \/ skills_list = << << >> >>
                   THEN Reply("skills", skill_names, skills_list, 400, << >>, << >>, FALSE)
                   ELSE Listed("skills", skill_names, skills_list, SelectSeq(docs, Match))
    /\ UNCHANGED <<docs, inserted, clients>>

\* the <path:skill_names> segments sent: path as received, terms the skill
\* names it stands for once split on '&' and trimmed
SkillPaths ==
    { [path |-> <<"p", "y">>, terms |-> << <<"p", "y">> >>],
      [path |-> <<"s", "q">>, terms |-> << <<"s", "q">> >>],
      [path |-> <<"P", "Y", "&", "s", "q">>, terms |-> << <<"P", "Y">>, <<"s", "q">> >>],
      [path |-> <<" ", "p", "y", " ", "&", " ", "S", "q", " ">>, terms |-> << <<"p", "y">>, <<"S", "q">> >>],
      [path |-> <<"p", "y", "&", "s", "q", "&", "x", "l">>, terms |-> << <<"p", "y">>, <<"s", "q">>, <<"x", "l">> >>],
      [path |-> <<"s", "q", "&">>, terms |-> << <<"s", "q">>, << >> >>],
      [path |-> <<" ">>, terms |-> << << >> >>],
      [path |-> <<"&">>, terms |-> << << >>, << >> >>],
      [path |-> <<" ", "&", " ">>, terms |-> << << >>, << >> >>] }

\* ----------------------------------------------------- get_top_paying_jobs
\* the place of a value in the store's sort order: a missing key sorts
\* below every number
SortKey(v) == IF v.kind = "int" THEN <<1, v.n>> ELSE <<0, 0>>

KeyLess(x, y) == x[1] < y[1] \/ (x[1] = y[1] /\ x[2] < y[2])

\* sort([("average_salary", -1), ("job_id", 1)]): x comes before y
SortsBefore(x, y) ==
    \/ KeyLess(SortKey(y.average_salary), SortKey(x.average_salary))
    \/ /\ SortKey(x.average_salary) = SortKey(y.average_salary)
       /\ KeyLess(SortKey(x.job_id), SortKey(y.job_id))

\* find().sort(...).limit(k): the lists the store can return; documents equal
\* on both sort keys come in an order the store does not define
RECURSIVE SortedLists(_, _, _)
SortedLists(ds, left, k) ==
    IF k = 0 \/ left = {} THEN {<< >>}
    ELSE UNION { { <<ds[m]>> \o rest : rest \in SortedLists(ds, left \ {m}, k - 1) } :
                 m \in {x \in left : \A y \in left : ~SortsBefore(ds[y], ds[x])} }

get_top_paying_jobs ==
    /\ \E jobs \in SortedLists(docs, 1..Len(docs), TopLimit) : last' = Listed("top", << >>, << >>, jobs)
    /\ UNCHANGED <<docs, inserted, clients>>

\* ------------------------------------------- lookups by one name, collated
\* {field: name} under the collation: the field is there and equals the name
\* but for case
Named(v, name) == v # None /\ Collated(v[1]) = Collated(name)

get_jobs_by_industry(industry_name) ==
    /\ LET Match(d) == Named(d.industry_name, industry_name)
       IN  last' = Listed("industry", industry_name, << >>, SelectSeq(docs, Match))
    /\ UNCHANGED <<docs, inserted, clients>>

get_jobs_by_skill(skill_name) ==
    /\ LET Match(d) == HasSkill(d, skill_name)
       IN  last' = Listed("skill", skill_name, << >>, SelectSeq(docs, Match))
    /\ UNCHANGED <<docs, inserted, clients>>

get_jobs_by_company(company_name) ==
    /\ LET Match(d) == Named(d.company_name, company_name)
       IN  last' = Listed("company", company_name, << >>, SelectSeq(docs, Match))
    /\ UNCHANGED <<docs, inserted, clients>>

get_jobs_by_degree(degree_name) ==
    /\ LET Match(d) == Named(d.level, degree_name)
       IN  last' = Listed("degree", degree_name, << >>, SelectSeq(docs, Match))
    /\ UNCHANGED <<docs, inserted, clients>>

\* the names sent in the path: each stored name in two spellings that differ
\* from it and from each other in case only
Names ==
    { <<"f", "I">>, <<"F", "I">>, <<"a", "C">>, <<"A", "C">>,
      <<"m", "S">>, <<"M", "S">>, <<"p", "Y">>, <<"P", "y">> }

\* --------------------------------------------------- count_jobs_by_industry
\* "$group" by "$industry.name": the values grouped on, a missing name among
\* them
IndustryNames(ds) == {ds[i].industry_name : i \in 1..Len(ds)}

\* a count of the documents whose name is the group's but for case
JobCountCollated(ds, name) ==
    Cardinality({i \in 1..Len(ds) :
                   \/ ds[i].industry_name = name
                   \/ name # None /\ Named(ds[i].industry_name, name[1])})

\* "job_count": {"$sum": 1}
JobCount(ds, name) == Cardinality({i \in 1..Len(ds) : ds[i].industry_name = name})

\* "$group", "$sort" by job_count descending, "$project": the lists the store
\* can return; groups of equal count come in an order the store does not
\* define
RECURSIVE SortedGroups(_, _)
SortedGroups(ds, left) ==
    IF left = {} THEN {<< >>}
    ELSE UNION { { <<[industry |-> g, job_count |-> JobCount(ds, g)]>> \o rest :
                     rest \in SortedGroups(ds, left \ {g}) } :
                 g \in {x \in left : \A y \in left : JobCount(ds, y) <= JobCount(ds, x)} }

count_jobs_by_industry ==
    /\ \E results \in SortedGroups(docs, IndustryNames(docs)) :
          last' = IF results = << >>
                  THEN Reply("count", << >>, << >>, 404, << >>, << >>, TRUE)
                  ELSE Reply("count", << >>, << >>, 200, << >>, results, TRUE)
    /\ UNCHANGED <<docs, inserted, clients>>

\* ----------------------------------------------------------- specification
InitQuery ==
    /\ docs \in Collections
    /\ inserted = Len(docs)
    /\ last = Reply("none", << >>, << >>, 0, << >>, << >>, FALSE)
    /\ clients = [c \in Clients |-> Idle]

NextQuery ==
    \/ \E r \in SalaryRequests : get_jobs_by_salary_range(r[1], r[2])
    \/ \E p \in SkillPaths : get_jobs_by_multiple_skills(p)
    \/ get_top_paying_jobs
    \/ \E name \in Names : get_jobs_by_industry(name)
    \/ \E name \in Names : get_jobs_by_skill(name)
    \/ \E name \in Names : get_jobs_by_company(name)
    \/ \E name \in Names : get_jobs_by_degree(name)
    \/ count_jobs_by_industry

SpecQuery == InitQuery /\ [][NextQuery]_vars

\* ------------------------------------------------------ query properties
\* the documents of the collection that satisfy Want, their _id as text
Exactly(Want(_)) ==
    LET keep == {i \in 1..Len(docs) : Want(docs[i])}
    IN  /\ last.count = Cardinality(keep)
        /\ Len(last.jobs) = last.count
        /\ \A i \in keep : \E k \in 1..Len(last.jobs) :
              /\ last.jobs[k]._id = Str("oid" \o ToString(i))
              /\ [last.jobs[k] EXCEPT !._id = docs[i]._id] = docs[i]
        /\ \A k, m \in 1..Len(last.jobs) : k # m => last.jobs[k]._id # last.jobs[m]._id

\* C11: with integer bounds min <= max the salary query answers 200 with
\* exactly the documents whose average_salary lies in [min, max], count
\* their number, and 404 when there are none; it answers 400 when a bound
\* is missing, not an integer, or min > max.
SalaryRangeExact ==
    last.op = "salary" =>
        LET InBounds(d) == /\ d.average_salary.kind = "int"
                           /\ \E x \in last.a.val..last.b.val : x = d.average_salary.n
        IN  IF ~last.a.int \/ ~last.b.int \/ last.a.val > last.b.val
            THEN last.status = 400 /\ last.jobs = << >>
            ELSE /\ Exactly(InBounds)
                 /\ last.status = IF last.count = 0 THEN 404 ELSE 200

\* a salary equal to both bounds was returned and two documents were left out
SalaryOnBoundReturned ==
    /\ last.op = "salary" /\ last.status = 200
    /\ last.a.val = 100 /\ last.b.val = 100
    /\ \E k \in 1..Len(last.jobs) : last.jobs[k].average_salary = Int_(100)
    /\ Len(docs) >= last.count + 2

\* the two texts are the same but for the case of their letters
SameButCase(x, y) ==
    /\ Len(x) = Len(y)
    /\ \A i \in 1..Len(x) : x[i] = y[i] \/ \E k \in 1..26 : {x[i], y[i]} = {UpperCase[k], LowerCase[k]}

\* the list holds the name, but for case
Holds(list, name) == list # None /\ \E i \in 1..Len(list[1]) : SameButCase(list[1][i], name)

\* C12: the multi-skill query returns exactly the documents whose
\* skills_required holds, but for case, every one of the '&'-separated and
\* trimmed skill names (404 when there are none); a document that lacks one
\* of them is never returned.
AllSkillsRequired ==
    (last.op = "skills" /\ \E i \in 1..Len(last.a.terms) : last.a.terms[i] # << >>) =>
        LET HoldsAll(d) == \A i \in 1..Len(last.a.terms) : Holds(d.skills_required, last.a.terms[i])
        IN  /\ Exactly(HoldsAll)
            /\ last.status = IF last.count = 0 THEN 404 ELSE 200

\* two skills were asked for, a document with both was returned and a
\* document with only one of them was not
OneSkillShortLeftOut ==
    /\ last.op = "skills" /\ last.status = 200 /\ Len(last.a.terms) = 2
    /\ \E k \in 1..Len(last.jobs) : last.jobs[k].job_id = Int_(1)
    /\ \E i \in 1..Len(docs) : docs[i].job_id = Int_(2)
    /\ \A k \in 1..Len(last.jobs) : last.jobs[k].job_id # Int_(2)

\* C13: the multi-skill query is answered 400, without a store query,
\* whenever splitting on '&' and trimming leaves no non-empty skill name.
NoSkillRejected ==
    (last.op = "skills" /\ \A i \in 1..Len(last.a.terms) : last.a.terms[i] = << >>) =>
        (last.status = 400 /\ ~last.queried)

\* the listed jobs are in order of salary, highest first, and of job_id,
\* lowest first, among equal salaries
TopOrdered(jobs) ==
    \A i, k \in 1..Len(jobs) :
        (i < k /\ jobs[i].average_salary.kind = "int" /\ jobs[k].average_salary.kind = "int") =>
            /\ jobs[i].average_salary.n >= jobs[k].average_salary.n
            /\ (/\ jobs[i].average_salary = jobs[k].average_salary
                /\ jobs[i].job_id.kind = "int" /\ jobs[k].job_id.kind = "int")
               => jobs[i].job_id.n <= jobs[k].job_id.n

\* the top-paid answer has min(5, n) documents in order, 404 for none
TopFiveListed ==
    last.op = "top" =>
        /\ last.count = IF Len(docs) < 5 THEN Len(docs) ELSE 5
        /\ last.status = IF Len(docs) = 0 THEN 404 ELSE 200
        /\ TopOrdered(last.jobs)
        /\ \A k \in 1..Len(last.jobs) : \E i \in 1..Len(docs) : [last.jobs[k] EXCEPT !._id = docs[i]._id] = docs[i]

\* C14: the top-paid endpoint returns at most 5 documents, the first
\* min(5, n) of the collection by average_salary descending and job_id
\* ascending, 404 for an empty collection, and two calls in a row on the
\* unchanged collection return the same list.
TopFiveRepeatable ==
    [][last'.op = "top" =>
         /\ TopFiveListed'
         /\ (last.op = "top" /\ docs' = docs) => last'.jobs = last.jobs]_vars

Lookups == {"industry", "skill", "company", "degree"}

\* the stored value the lookup compares with the name equals it but for case
StoredAs(op, d, name) ==
    CASE op = "industry" -> d.industry_name # None /\ SameButCase(d.industry_name[1], name)
      [] op = "company" -> d.company_name # None /\ SameButCase(d.company_name[1], name)
      [] op = "degree" -> d.level # None /\ SameButCase(d.level[1], name)
      [] op = "skill" -> Holds(d.skills_required, name)

\* the answer lists every document whose stored value equals the name but
\* for case, and no other; 404 when there is none
LookupExact ==
    last.op \in Lookups =>
        LET Want(d) == StoredAs(last.op, d, last.a)
        IN  /\ Exactly(Want)
            /\ last.status = IF last.count = 0 THEN 404 ELSE 200

\* C15: a lookup by industry name, company name, skill or degree level
\* returns every document whose stored value equals the name ignoring case,
\* with count the number returned, 404 and never an empty 200 when there is
\* none; two names that differ only in case get the same documents.
LookupIgnoresCase ==
    [][/\ LookupExact'
       /\ (/\ last.op \in Lookups
           /\ last'.op = last.op
           /\ SameButCase(last.a, last'.a))
          => /\ last'.status = last.status
             /\ {last'.jobs[k] : k \in 1..Len(last'.jobs)} = {last.jobs[k] : k \in 1..Len(last.jobs)}]_vars

\* an industry lookup in capitals returned the two documents that store the
\* name in two other spellings, and left another document out
LookupFoundOtherSpellings ==
    /\ last.op = "industry" /\ last.status = 200
    /\ last.a = <<"F", "I">>
    /\ last.count = 2
    /\ Len(docs) >= 3
    /\ \E k, m \in 1..2 : /\ last.jobs[k].industry_name = Some(<<"F", "i">>)
                          /\ last.jobs[m].industry_name = Some(<<"f", "i">>)

RECURSIVE SumCounts(_)
SumCounts(groups) == IF groups = << >> THEN 0 ELSE Head(groups).job_count + SumCounts(Tail(groups))

\* C16: the count-by-industry answer has one entry per distinct
\* industry.name of the collection (a missing name counts as one more value),
\* each job_count the number of documents with exactly that name, the counts
\* summing to the size of the collection, in order of job_count
\* non-increasing; 404 when the collection is empty.
IndustryCountsExact ==
    last.op = "count" =>
        /\ last.status = IF Len(docs) = 0 THEN 404 ELSE 200
        /\ \A i \in 1..Len(docs) : \E k \in 1..Len(last.groups) : last.groups[k].industry = docs[i].industry_name
        /\ \A k, m \in 1..Len(last.groups) : k # m => last.groups[k].industry # last.groups[m].industry
        /\ \A k \in 1..Len(last.groups) :
              /\ last.groups[k].job_count >= 1
              /\ last.groups[k].job_count =
                     Cardinality({i \in 1..Len(docs) : docs[i].industry_name = last.groups[k].industry})
        /\ SumCounts(last.groups) = Len(docs)
        /\ \A k \in 1..(Len(last.groups) - 1) : last.groups[k].job_count >= last.groups[k + 1].job_count

\* the count listed two spellings of one industry as two entries, one with
\* two documents before one with one
IndustryCountedTwoSpellings ==
    /\ last.op = "count" /\ last.status = 200
    /\ \E k, m \in 1..Len(last.groups) :
          /\ k < m
          /\ last.groups[k].industry # None /\ last.groups[m].industry # None
          /\ last.groups[k].industry # last.groups[m].industry
          /\ SameButCase(last.groups[k].industry[1], last.groups[m].industry[1])
          /\ last.groups[k].job_count = 2 /\ last.groups[m].job_count = 1

====
